---- MODULE Spec2Model ----
(***************************************************************************)
(* Meeting-room booking backend: the bookings table and the HTTP handlers  *)
(* that read and write it.  Two variants of the server exist: the SQLite   *)
(* one (server.js: list, create, update, delete) and the PostgreSQL one    *)
(* (meeting-room-backend.js: list by date, create, delete).                *)
(*                                                                         *)
(* A handler runs in several turns of the event loop: its synchronous part *)
(* (validation, issuing the first query), then one callback per database   *)
(* call.  Each turn is one action; the database executes a statement       *)
(* atomically in the turn whose callback receives its result.              *)
(*                                                                         *)
(* Dates and times are the strings the server compares with SQL's < and    *)
(* <= on TEXT columns.  They are modelled by their rank in that order      *)
(* (1..MaxDate, 1..MaxTime); 0 stands for a field that is absent or empty, *)
(* the values JavaScript's ! operator takes for missing.                   *)
(***************************************************************************)
EXTENDS Integers, FiniteSets, Sequences, Bags, TLC

\* ---------------------------------------------------------------- bounds
MaxDate == 2
MaxTime == 3
MaxId == 2
MaxInFlight == 2
MaxSent == 3
MaxSlot == 4

\* ------------------------------------------------------ program constants
Missing == 0
Ok == 200
Created == 201
BadRequest == 400
NotFound == 404
Conflict == 409
ServerError == 500

Variants == {"sqlite", "pg"}

Titles == {Missing, 1}
Dates == 0..MaxDate
Times == 0..MaxTime
Ids == 1..MaxId

Optionals == {Missing, 1}

\* req.body of POST and PUT: the fields the handlers read.  attendees and
\* notes are optional; these bodies leave them out.
Bodies ==
    [title : Titles, date : Dates, startTime : Times, endTime : Times,
     attendees : {Missing}, notes : {Missing}]

\* Complete bodies for the first date, with or without the optional fields.
DetailBodies ==
    [title : {1}, date : {1}, startTime : 1..MaxTime, endTime : 1..MaxTime,
     attendees : Optionals, notes : Optionals]

NoBody ==
    [title |-> Missing, date |-> Missing, startTime |-> Missing,
     endTime |-> Missing, attendees |-> Missing, notes |-> Missing]

\* No JSON sent yet.
NoResponse == [pending |-> TRUE]

\* No listing remembered.
NoListing == [date |-> Missing, rows |-> <<>>]

VARIABLES
    variant,    \* which server is running
    store,      \* the rows of table bookings
    nextId,     \* the id the next INSERT is given (AUTOINCREMENT / SERIAL)
    inflight,   \* bag of requests received and not yet delivered an answer
    sent,       \* number of requests received while the clients overlap them
    seen        \* what a client remembers of earlier answers (history only)

vars == <<variant, store, nextId, inflight, sent, seen>>

\* ------------------------------------------------------------- the table
StoredIds == {b.id : b \in store}

\* The row an INSERT of body makes when the table gives it id.  createdAt
\* DEFAULT CURRENT_TIMESTAMP is the time of the insert, modelled by the rank
\* of the insert among all inserts, which is the id the table gives it.
RowOf(id, body) ==
    [id |-> id, title |-> body.title, date |-> body.date,
     startTime |-> body.startTime, endTime |-> body.endTime,
     attendees |-> body.attendees, notes |-> body.notes, createdAt |-> id]

\* The object literal the SQLite handlers answer a create or update with.
BookingJson(id, body) ==
    [id |-> id, title |-> body.title, date |-> body.date,
     startTime |-> body.startTime, endTime |-> body.endTime,
     attendees |-> body.attendees, notes |-> body.notes]

\* Mutant: the validation forgets endTime.
RequiredMissingNoEnd(body) ==
    \/ body.title = Missing
    \/ body.date = Missing
    \/ body.startTime = Missing

\* if (!title || !date || !startTime || !endTime)
RequiredMissing(body) ==
    \/ body.title = Missing
    \/ body.date = Missing
    \/ body.startTime = Missing
    \/ body.endTime = Missing

\* Mutant: only the first clause, the candidate's start inside a stored row.
SqliteConflictStartOnly(b, s, e) ==
    (b.startTime <= s /\ b.endTime > s)

\* Mutant: closed intervals, a row ending where the candidate starts conflicts.
SqliteConflictClosed(b, s, e) ==
    \/ (b.startTime <= s /\ b.endTime >= s)
    \/ (b.startTime <= e /\ b.endTime >= e)
    \/ (b.startTime >= s /\ b.endTime <= e)

\* WHERE clause of the SQLite conflict query, without the date: b is a stored
\* row, s and e the candidate's startTime and endTime.
SqliteConflict(b, s, e) ==
    \/ (b.startTime <= s /\ b.endTime > s)
    \/ (b.startTime < e /\ b.endTime >= e)
    \/ (b.startTime >= s /\ b.endTime <= e)

\* Mutant: the placeholders $2 and $3 are bound the other way round.
PgConflictSwapped(b, s, e) ==
    \/ (b.startTime < s /\ b.endTime > e)
    \/ (b.startTime >= e /\ b.startTime < s)

\* WHERE clause of the PostgreSQL conflict query, without the date
\* ($2 = endTime, $3 = startTime).
PgConflict(b, s, e) ==
    \/ (b.startTime < e /\ b.endTime > s)
    \/ (b.startTime >= s /\ b.startTime < e)

TimeConflict(v, b, s, e) ==
    IF v = "sqlite" THEN SqliteConflict(b, s, e) ELSE PgConflict(b, s, e)

\* Rows selected by the conflict query of POST.
CreateConflicts(v, rows, body) ==
    {b \in rows : b.date = body.date
                  /\ TimeConflict(v, b, body.startTime, body.endTime)}

\* Rows selected by the conflict query of PUT (SQLite only): id != ?
UpdateConflicts(rows, id, body) ==
    {b \in rows : b.date = body.date /\ b.id # id
                  /\ SqliteConflict(b, body.startTime, body.endTime)}

\* Mutant: no AUTOINCREMENT, the row gets one more than the largest stored id.
InsertRowAfterLargest(rows, id, body) ==
    rows \cup {RowOf(IF rows = {} THEN 1
                     ELSE 1 + CHOOSE m \in {b.id : b \in rows} :
                                  \A b \in rows : b.id <= m,
                     body)}

\* INSERT INTO bookings ... : the table gives the row its id.
InsertRow(rows, id, body) == rows \cup {RowOf(id, body)}

\* Mutant: an upsert, the row is written whether or not the id exists.
UpsertRows(rows, id, body) ==
    {b \in rows : b.id # id} \cup {RowOf(id, body)}

\* UPDATE bookings SET ... WHERE id = ?
UpdateRows(rows, id, body) ==
    {IF b.id = id
     THEN [b EXCEPT !.title = body.title, !.date = body.date,
                    !.startTime = body.startTime, !.endTime = body.endTime,
                    !.attendees = body.attendees, !.notes = body.notes]
     ELSE b : b \in rows}

\* Mutant: the DELETE takes every row of the booking's date with it.
DeleteRowsOfDate(rows, id) ==
    {b \in rows : \A x \in rows : x.id = id => b.date # x.date}

\* Mutant: the comparison is reversed, every other row is deleted.
DeleteRowsOthers(rows, id) == {b \in rows : b.id = id}

\* DELETE FROM bookings WHERE id = ?
DeleteRows(rows, id) == {b \in rows : b.id # id}

\* Mutant: the handler does not look at the number of rows changed.
ChangesIgnored(rows, id) == 1

\* this.changes / result.rowCount of an UPDATE or DELETE ... WHERE id = ?
Changes(rows, id) == Cardinality({b \in rows : b.id = id})

\* The sequences that hold each element of set S once.
Orderings(S) ==
    {q \in [1..Cardinality(S) -> S] : \A i, j \in DOMAIN q : i # j => q[i] # q[j]}

\* SELECT * FROM bookings WHERE date = ? ORDER BY startTime: SQL leaves the
\* order of rows with equal startTime to the engine.
RowsOfDate(rows, date) ==
    {q \in Orderings({b \in rows : b.date = date}) :
        \A i, j \in DOMAIN q : i < j => q[i].startTime <= q[j].startTime}

\* SELECT * FROM bookings ORDER BY date, startTime
RowsByDate(rows) ==
    {q \in Orderings(rows) :
        \A i, j \in DOMAIN q : i < j =>
            \/ q[i].date < q[j].date
            \/ q[i].date = q[j].date /\ q[i].startTime <= q[j].startTime}

\* ----------------------------------------------------------- the requests
Request(kind, id, body) ==
    [kind |-> kind, id |-> id, body |-> body, pc |-> "query", status |-> 0,
     resp |-> NoResponse]

At(r, pc) == [r EXCEPT !.pc = pc]

\* res.status(status).json(json)
AnsweredWith(r, status, json) ==
    [r EXCEPT !.pc = "done", !.status = status, !.resp = json]

\* The JSON each handler sends with a status that fixes it.
Json(r, status) ==
    CASE status = BadRequest -> [error |-> "Missing required fields"]
      [] status = Conflict -> [error |-> "Time slot conflict"]
      [] status = NotFound -> [error |-> "Booking not found"]
      [] status = ServerError -> [error |-> "Database error"]
      [] status = Created ->
            IF variant = "sqlite" THEN BookingJson(nextId, r.body)
            ELSE RowOf(nextId, r.body)
      [] status = Ok /\ r.kind = "update" -> BookingJson(r.id, r.body)
      [] status = Ok /\ r.kind = "delete" ->
            [message |-> "Booking deleted successfully"]
      [] OTHER -> NoResponse

Answered(r, status) == AnsweredWith(r, status, Json(r, status))

Add(bag, r) == bag (+) SetToBag({r})

Remove(bag, r) == bag (-) SetToBag({r})

Replace(bag, r, r2) == Add(Remove(bag, r), r2)

Pending == BagToSet(inflight)

\* Creates that will still ask the table for an id.
PendingCreates ==
    LET cs == {r \in Pending : r.kind = "create" /\ r.pc # "done"}
    IN  BagCardinality([r \in cs |-> inflight[r]])

Init ==
    /\ variant \in Variants
    /\ store = {}
    /\ nextId = 1
    /\ inflight = EmptyBag
    /\ sent = 0
    /\ seen = [rejected |-> NoBody, listed |-> NoListing]

\* app.post('/api/bookings'), synchronous part: validation, then the
\* conflict query is issued.  Creates are received while the table still
\* has an id up to MaxId for each of them.
PostBooking(body) ==
    /\ IF RequiredMissing(body)
       THEN inflight' = Add(inflight, Answered(Request("create", 0, body), BadRequest))
       ELSE /\ nextId + PendingCreates <= MaxId
            /\ inflight' = Add(inflight, Request("create", 0, body))
    /\ UNCHANGED <<variant, store, nextId>>

\* app.put('/api/bookings/:id'), synchronous part (SQLite variant only).
PutBooking(id, body) ==
    /\ variant = "sqlite"
    /\ IF RequiredMissing(body)
       THEN inflight' = Add(inflight, Answered(Request("update", id, body), BadRequest))
       ELSE inflight' = Add(inflight, Request("update", id, body))
    /\ UNCHANGED <<variant, store, nextId>>

\* app.delete('/api/bookings/:id'), synchronous part: the DELETE is issued.
DeleteBooking(id) ==
    /\ inflight' = Add(inflight, At(Request("delete", id, NoBody), "write"))
    /\ UNCHANGED <<variant, store, nextId>>

\* app.get('/api/bookings'), synchronous part (SQLite variant only).
GetBookings ==
    /\ variant = "sqlite"
    /\ inflight' = Add(inflight, Request("listAll", 0, NoBody))
    /\ UNCHANGED <<variant, store, nextId>>

\* app.get('/api/bookings/:date'), synchronous part: the SELECT is issued.
GetBookingsOfDate(date) ==
    /\ inflight' = Add(inflight, Request("list", 0, [NoBody EXCEPT !.date = date]))
    /\ UNCHANGED <<variant, store, nextId>>

\* Callback of SELECT * FROM bookings ORDER BY date, startTime.
ListAllDone(r, err) ==
    /\ r \in Pending /\ r.kind = "listAll" /\ r.pc = "query"
    /\ IF err
       THEN inflight' = Replace(inflight, r, Answered(r, ServerError))
       ELSE \E rows \in RowsByDate(store) :
                inflight' = Replace(inflight, r, AnsweredWith(r, Ok, [rows |-> rows]))
    /\ UNCHANGED <<variant, store, nextId, sent>>

\* Callback of SELECT * FROM bookings WHERE date = ? ORDER BY startTime.
ListDone(r, err) ==
    /\ r \in Pending /\ r.kind = "list" /\ r.pc = "query"
    /\ IF err
       THEN inflight' = Replace(inflight, r, Answered(r, ServerError))
       ELSE \E rows \in RowsOfDate(store, r.body.date) :
                inflight' = Replace(inflight, r, AnsweredWith(r, Ok, [rows |-> rows]))
    /\ UNCHANGED <<variant, store, nextId, sent>>

\* Mutant: the callback does not look at err.
CreateQueryDoneUnchecked(r, err) ==
    /\ r \in Pending /\ r.kind = "create" /\ r.pc = "query"
    /\ inflight' =
         IF CreateConflicts(variant, store, r.body) # {}
         THEN Replace(inflight, r, Answered(r, Conflict))
         ELSE Replace(inflight, r, At(r, "write"))
    /\ UNCHANGED <<variant, store, nextId, sent>>

\* Callback of the conflict query of POST.
CreateQueryDone(r, err) ==
    /\ r \in Pending /\ r.kind = "create" /\ r.pc = "query"
    /\ inflight' =
         IF err THEN Replace(inflight, r, Answered(r, ServerError))
         ELSE IF CreateConflicts(variant, store, r.body) # {}
              THEN Replace(inflight, r, Answered(r, Conflict))
              ELSE Replace(inflight, r, At(r, "write"))
    /\ UNCHANGED <<variant, store, nextId, sent>>

\* Callback of the conflict query of PUT.
UpdateQueryDone(r, err) ==
    /\ r \in Pending /\ r.kind = "update" /\ r.pc = "query"
    /\ inflight' =
         IF err THEN Replace(inflight, r, Answered(r, ServerError))
         ELSE IF UpdateConflicts(store, r.id, r.body) # {}
              THEN Replace(inflight, r, Answered(r, Conflict))
              ELSE Replace(inflight, r, At(r, "write"))
    /\ UNCHANGED <<variant, store, nextId, sent>>

\* The INSERT and its callback.
InsertDone(r, err) ==
    /\ r \in Pending /\ r.kind = "create" /\ r.pc = "write"
    /\ IF err
       THEN /\ inflight' = Replace(inflight, r, Answered(r, ServerError))
            /\ UNCHANGED <<store, nextId>>
       ELSE /\ store' = InsertRow(store, nextId, r.body)
            /\ nextId' = nextId + 1
            /\ inflight' = Replace(inflight, r, Answered(r, Created))
    /\ UNCHANGED <<variant, sent>>

\* The UPDATE and its callback.
UpdateDone(r, err) ==
    /\ r \in Pending /\ r.kind = "update" /\ r.pc = "write"
    /\ IF err
       THEN /\ inflight' = Replace(inflight, r, Answered(r, ServerError))
            /\ UNCHANGED store
       ELSE /\ store' = UpdateRows(store, r.id, r.body)
            /\ inflight' =
                 IF Changes(store, r.id) = 0
                 THEN Replace(inflight, r, Answered(r, NotFound))
                 ELSE Replace(inflight, r, Answered(r, Ok))
    /\ UNCHANGED <<variant, nextId, sent>>

\* Mutant: when no row was deleted the callback returns without an answer.
DeleteDoneSilent(r, err) ==
    /\ r \in Pending /\ r.kind = "delete" /\ r.pc = "write"
    /\ IF err
       THEN /\ inflight' = Replace(inflight, r, Answered(r, ServerError))
            /\ UNCHANGED store
       ELSE /\ store' = DeleteRows(store, r.id)
            /\ inflight' =
                 IF Changes(store, r.id) = 0
                 THEN Replace(inflight, r, At(r, "returned"))
                 ELSE Replace(inflight, r, Answered(r, Ok))
    /\ UNCHANGED <<variant, nextId, sent>>

\* The DELETE and its callback.
DeleteDone(r, err) ==
    /\ r \in Pending /\ r.kind = "delete" /\ r.pc = "write"
    /\ IF err
       THEN /\ inflight' = Replace(inflight, r, Answered(r, ServerError))
            /\ UNCHANGED store
       ELSE /\ store' = DeleteRows(store, r.id)
            /\ inflight' =
                 IF Changes(store, r.id) = 0
                 THEN Replace(inflight, r, Answered(r, NotFound))
                 ELSE Replace(inflight, r, Answered(r, Ok))
    /\ UNCHANGED <<variant, nextId, sent>>

\* The client reads the answer.
Deliver(r) ==
    /\ r \in Pending /\ r.pc = "done"
    /\ inflight' = Remove(inflight, r)
    /\ UNCHANGED <<variant, store, nextId, sent>>

\* One client that waits for each answer before it sends the next request.
Alone ==
    /\ inflight = EmptyBag
    /\ UNCHANGED sent

\* Clients that send up to MaxSent requests, MaxInFlight of them at a time.
Overlapped ==
    /\ BagCardinality(inflight) < MaxInFlight
    /\ sent < MaxSent
    /\ sent' = sent + 1

Post == \E body \in Bodies : PostBooking(body)

Put == \E id \in Ids, body \in Bodies : PutBooking(id, body)

Delete == \E id \in Ids : DeleteBooking(id)

CreateQuery == \E r \in Pending, err \in BOOLEAN : CreateQueryDone(r, err)

UpdateQuery == \E r \in Pending, err \in BOOLEAN : UpdateQueryDone(r, err)

Insert == \E r \in Pending, err \in BOOLEAN : InsertDone(r, err)

Update == \E r \in Pending, err \in BOOLEAN : UpdateDone(r, err)

DeleteRun == \E r \in Pending, err \in BOOLEAN : DeleteDone(r, err)

GetAll == GetBookings

GetDate == \E date \in 1..MaxDate : GetBookingsOfDate(date)

ListAll == \E r \in Pending, err \in BOOLEAN : ListAllDone(r, err)

List == \E r \in Pending, err \in BOOLEAN : ListDone(r, err)

Answer == \E r \in Pending : Deliver(r)

Callback == CreateQuery \/ UpdateQuery \/ Insert \/ Update \/ DeleteRun

\* Requests one at a time: each request's conflict check and write run with
\* no other request in between.
Next ==
    \/ Alone /\ Post /\ UNCHANGED seen
    \/ Alone /\ Put /\ UNCHANGED seen
    \/ Alone /\ Delete /\ UNCHANGED seen
    \/ Alone /\ GetAll /\ UNCHANGED seen
    \/ Alone /\ GetDate /\ UNCHANGED seen
    \/ CreateQuery /\ UNCHANGED seen
    \/ UpdateQuery /\ UNCHANGED seen
    \/ Insert /\ UNCHANGED seen
    \/ Update /\ UNCHANGED seen
    \/ DeleteRun /\ UNCHANGED seen
    \/ ListAll /\ UNCHANGED seen
    \/ List /\ UNCHANGED seen
    \/ Answer /\ UNCHANGED seen

Spec == Init /\ [][Next]_vars

\* Every database call completes: a callback that can run does run.
Completion ==
    /\ WF_vars(CreateQuery /\ UNCHANGED seen)
    /\ WF_vars(UpdateQuery /\ UNCHANGED seen)
    /\ WF_vars(Insert /\ UNCHANGED seen)
    /\ WF_vars(Update /\ UNCHANGED seen)
    /\ WF_vars(DeleteRun /\ UNCHANGED seen)
    /\ WF_vars(ListAll /\ UNCHANGED seen)
    /\ WF_vars(List /\ UNCHANGED seen)

FairSpec == Init /\ [][Next]_vars /\ Completion

\* ------------------------------------------- the conflict queries on their own
\* Complete bodies with startTime < endTime over MaxSlot time points, enough
\* for every order two intervals' four ends can have.
RangedBodies ==
    {c \in [title : {1}, date : 1..MaxDate, startTime : 1..MaxSlot,
            endTime : 1..MaxSlot, attendees : {Missing}, notes : {Missing}] :
        c.startTime < c.endTime}

\* Tables of up to MaxId rows made from such bodies, the rows of one date
\* overlapping or not.
RangedTables ==
    UNION {{{RowOf(i, f[i]) : i \in 1..n} : f \in [1..n -> RangedBodies]} :
              n \in 0..MaxId}

\* A table of rows with startTime < endTime and one create or update with
\* such a candidate, about to get the result of its conflict query.
CompareInit ==
    /\ variant \in Variants
    /\ store \in RangedTables
    /\ nextId = MaxId + 1
    /\ \E c \in RangedBodies, id \in 0..MaxId :
          /\ id # 0 => variant = "sqlite"
          /\ inflight = SetToBag({Request(IF id = 0 THEN "create" ELSE "update",
                                          id, c)})
    /\ sent = 0
    /\ seen = [rejected |-> NoBody, listed |-> NoListing]

CompareNext ==
    \/ CreateQuery /\ UNCHANGED seen
    \/ UpdateQuery /\ UNCHANGED seen

CompareSpec == CompareInit /\ [][CompareNext]_vars

\* Requests in flight together: their turns interleave in any order.
ConcNext ==
    \/ Overlapped /\ Post /\ UNCHANGED seen
    \/ Overlapped /\ Put /\ UNCHANGED seen
    \/ Overlapped /\ Delete /\ UNCHANGED seen
    \/ Overlapped /\ GetAll /\ UNCHANGED seen
    \/ Overlapped /\ GetDate /\ UNCHANGED seen
    \/ CreateQuery /\ UNCHANGED seen
    \/ UpdateQuery /\ UNCHANGED seen
    \/ Insert /\ UNCHANGED seen
    \/ Update /\ UNCHANGED seen
    \/ DeleteRun /\ UNCHANGED seen
    \/ ListAll /\ UNCHANGED seen
    \/ List /\ UNCHANGED seen
    \/ Answer /\ UNCHANGED seen

ConcSpec == Init /\ [][ConcNext]_vars

\* -------------------------------------------------- what the client remembers
\* Requests of the given kinds that this step answers with one of the statuses.
AnsweredNow(kinds, statuses) ==
    {r \in BagToSet(inflight') :
        /\ r.pc = "done" /\ r.kind \in kinds /\ r.status \in statuses
        /\ CopiesIn(r, inflight') > CopiesIn(r, inflight)}

\* seen.rejected: the candidate of the last create answered 409, for as long
\* as no create or update has succeeded since.
TrackRejected ==
    seen' = [seen EXCEPT !.rejected =
                IF AnsweredNow({"create"}, {Conflict}) # {}
                THEN (CHOOSE r \in AnsweredNow({"create"}, {Conflict}) : TRUE).body
                ELSE IF AnsweredNow({"create", "update"}, {Created, Ok}) # {}
                     THEN NoBody
                     ELSE @]

\* seen.listed: the date and rows of the last listing by date answered 200,
\* for as long as no create, update or delete has been answered since.
TrackListed ==
    seen' = [seen EXCEPT !.listed =
                IF AnsweredNow({"list"}, {Ok}) # {}
                THEN LET r == CHOOSE x \in AnsweredNow({"list"}, {Ok}) : TRUE
                     IN  [date |-> r.body.date, rows |-> r.resp.rows]
                ELSE IF AnsweredNow({"create", "update", "delete"},
                                    {Ok, Created, BadRequest, NotFound,
                                     Conflict, ServerError}) # {}
                     THEN NoListing
                     ELSE @]

PostDetail == \E body \in DetailBodies : PostBooking(body)

PutDetail == \E id \in Ids, body \in DetailBodies : PutBooking(id, body)

\* One client that books a single day, with or without the optional fields,
\* and remembers the candidate it was last refused.
DayNext ==
    \/ Alone /\ PostDetail /\ TrackRejected
    \/ Alone /\ PutDetail /\ TrackRejected
    \/ Alone /\ Delete /\ TrackRejected
    \/ CreateQuery /\ TrackRejected
    \/ UpdateQuery /\ TrackRejected
    \/ Insert /\ TrackRejected
    \/ Update /\ TrackRejected
    \/ DeleteRun /\ TrackRejected
    \/ Answer /\ TrackRejected

DaySpec == Init /\ [][DayNext]_vars

\* One client that remembers the last listing it was given.
ReadNext ==
    \/ Alone /\ Post /\ TrackListed
    \/ Alone /\ Put /\ TrackListed
    \/ Alone /\ Delete /\ TrackListed
    \/ Alone /\ GetDate /\ TrackListed
    \/ CreateQuery /\ TrackListed
    \/ UpdateQuery /\ TrackListed
    \/ Insert /\ TrackListed
    \/ Update /\ TrackListed
    \/ DeleteRun /\ TrackListed
    \/ List /\ TrackListed
    \/ Answer /\ TrackListed

ReadSpec == Init /\ [][ReadNext]_vars

\* ------------------------------------------------------------ properties
WellFormed(x) == x.startTime < x.endTime

\* One of title, date, startTime, endTime is absent or empty.
LacksRequired(body) ==
    \E f \in {"title", "date", "startTime", "endTime"} : body[f] = Missing

\* Half-open intervals [startTime, endTime) of x and y share an instant.
Overlap(x, y) == x.startTime < y.endTime /\ y.startTime < x.endTime

\* The turn taken turns request r into r2.
Moved(r, r2) == r2 # r /\ inflight' = Replace(inflight, r, r2)

NoOverlap ==
    \A b1, b2 \in store :
        (b1.id # b2.id /\ b1.date = b2.date) => ~Overlap(b1, b2)

\* C1: with requests handled one at a time, no two distinct stored bookings
\* of one date overlap, whatever creates, updates (also of the date) and
\* deletes were accepted.
NoOverlapSequential == NoOverlap

\* C1 witness: two bookings share a date after an update was accepted.
TwoOnDateAfterUpdate ==
    \E r \in Pending, b1, b2 \in store :
        /\ r.kind = "update" /\ r.status = Ok
        /\ b1.id = r.id /\ b2.id # b1.id /\ b1.date = b2.date
        /\ WellFormed(b1) /\ WellFormed(b2)

\* C2: with the conflict queries and writes of several requests
\* interleaved, no date ever holds two distinct bookings that overlap.
NoOverlapConcurrent ==
    \A d \in Dates :
        \A b1, b2 \in {b \in store : b.date = d} :
            b1.id # b2.id => ~Overlap(b1, b2)

\* C3: a create with startTime < endTime is answered 409 exactly when a
\* stored booking of its date overlaps it (half-open test); otherwise it
\* goes on to the insert, which adds the candidate and answers 201.
CreateDecidesByOverlap ==
    [][\A r \in Pending :
         (r.kind = "create" /\ WellFormed(r.body)) =>
           LET hit == \E b \in store : b.date = r.body.date /\ Overlap(b, r.body)
           IN  /\ Moved(r, Answered(r, Conflict)) => hit
               /\ Moved(r, At(r, "write")) => ~hit
               /\ Moved(r, Answered(r, Created)) =>
                     store' = store \cup {RowOf(nextId, r.body)}]_vars

\* A stored booking that ends where x starts or starts where x ends.
Touches(b, x) ==
    WellFormed(b) /\ (b.endTime = x.startTime \/ b.startTime = x.endTime)

\* C4: a create [s,m) or [m,e) whose date holds only bookings that touch it
\* at a boundary is not answered 409: its conflict query sends it on to the
\* insert, and the insert stores it with 201 (a failed database call is
\* answered 500).
BoundaryAdmission ==
    [][\A r \in Pending :
         (/\ r.kind = "create" /\ WellFormed(r.body)
          /\ \A b \in store : b.date = r.body.date => Touches(b, r.body)) =>
           \A r2 \in BagToSet(inflight') :
              Moved(r, r2) =>
                 /\ r.pc = "query" => r2 \in {At(r, "write"), Answered(r, ServerError)}
                 /\ r.pc = "write" => r2 \in {Answered(r, Created), Answered(r, ServerError)}
                 /\ r2.status = Created => RowOf(nextId, r.body) \in store']_vars

\* C4 witness: [m,e) was created first, then [s,m) was answered 201.
LaterIntervalFirst ==
    \E r \in Pending, b1, b2 \in store :
        /\ r.kind = "create" /\ r.status = Created
        /\ b1 = RowOf(b1.id, r.body)
        /\ b1.date = b2.date /\ b2.id < b1.id
        /\ WellFormed(b1) /\ WellFormed(b2)
        /\ b1.endTime = b2.startTime

\* C5: every stored booking has startTime < endTime.
StoredRangesValid == \A b \in store : WellFormed(b)

\* C6: a create with all required fields and startTime >= endTime is
\* answered 400 and never waits for a conflict query or an insert.
BadRangeRejected ==
    \A r \in Pending :
        (r.kind = "create" /\ ~LacksRequired(r.body) /\ ~WellFormed(r.body))
            => (r.pc = "done" /\ r.status = BadRequest)

\* C7: an update of a stored booking is answered 409 exactly when a stored
\* booking of the new date with another id overlaps the new interval; its
\* own previous interval does not count.
UpdateSelfExclusion ==
    [][\A r \in Pending :
         (/\ r.kind = "update" /\ r.pc = "query"
          /\ r.id \in StoredIds /\ WellFormed(r.body)) =>
           LET hit == \E b \in store : /\ b.id # r.id
                                      /\ b.date = r.body.date
                                      /\ Overlap(b, r.body)
           IN  /\ Moved(r, Answered(r, Conflict)) => hit
               /\ Moved(r, At(r, "write")) => ~hit]_vars

\* C8: a create or update with a required field missing is answered 400 in
\* the turn it arrives, with no query or write issued and the table as it
\* was, whatever the table holds and whether or not the id exists.
MissingFieldsRejected ==
    [][\A r2 \in BagToSet(inflight') :
         (/\ r2.kind \in {"create", "update"}
          /\ LacksRequired(r2.body)
          /\ CopiesIn(r2, inflight') > CopiesIn(r2, inflight)) =>
            /\ r2.pc = "done" /\ r2.status = BadRequest
            /\ inflight' = Add(inflight, r2)
            /\ store' = store /\ nextId' = nextId]_vars

\* C8 witness: an update of an id that is not stored, answered 400 over a
\* table that holds a booking.
UnknownIdAnswered400 ==
    \E r \in Pending :
        /\ r.kind = "update" /\ r.status = BadRequest
        /\ r.id \notin StoredIds /\ store # {}

\* C9: no turn of an update whose id is not stored changes the table, and
\* its UPDATE statement, when it runs, is answered 404 (a failed database
\* call is answered 500).
UnknownIdUpdate ==
    [][\A r \in Pending :
         (r.kind = "update" /\ r.id \notin StoredIds) =>
           \A r2 \in BagToSet(inflight') :
              Moved(r, r2) =>
                 /\ store' = store /\ nextId' = nextId
                 /\ r.pc = "write" =>
                       r2 \in {Answered(r, NotFound), Answered(r, ServerError)}]_vars

\* C9 witness: an update that passed the conflict check against a stored
\* booking of its date was answered 404.
UnknownIdAnswered404 ==
    \E r \in Pending, b \in store :
        /\ r.kind = "update" /\ r.status = NotFound
        /\ b.date = r.body.date /\ r.id \notin StoredIds

\* C10: the DELETE of a stored id removes that booking and no other and is
\* answered 200; of an id not stored it changes nothing and is answered
\* 404; and it never makes two bookings overlap that did not before.
DeleteIsLocal ==
    [][\A r \in Pending :
         (r.kind = "delete" /\ r.pc = "write") =>
           \A r2 \in BagToSet(inflight') :
              Moved(r, r2) =>
                 /\ nextId' = nextId
                 /\ r2.status \in {Ok, NotFound, ServerError}
                 /\ r.id \in StoredIds => r2.status # NotFound
                 /\ r2.status = Ok =>
                       /\ store' \subseteq store
                       /\ store \ store' = {b \in store : b.id = r.id}
                       /\ Cardinality(store \ store') = 1
                 /\ r2.status # Ok => store' = store
                 /\ r2.status = NotFound => r.id \notin StoredIds
                 /\ NoOverlap => NoOverlap']_vars

\* C10 witness: a delete was answered 200 and another booking is still
\* stored.
DeletedOneKeptOther ==
    \E r \in Pending :
        /\ r.kind = "delete" /\ r.status = Ok
        /\ r.id \notin StoredIds /\ store # {}

\* C11: when a create of a candidate c with startTime < endTime was answered
\* 409 and, with no create or update succeeding since, no stored booking
\* overlaps c on c's date any more (each one that did was deleted), the
\* repeated create of c is not answered 409.
FreedSlotAccepted ==
    [][\A r \in Pending :
          (/\ r.kind = "create" /\ r.pc = "query"
           /\ r.body = seen.rejected /\ WellFormed(r.body)
           /\ ~\E b \in store : b.date = r.body.date /\ Overlap(b, r.body))
          => ~Moved(r, Answered(r, Conflict))]_vars

\* The fields of a booking that come from the request body.
SameFields(x, body) ==
    /\ x.title = body.title /\ x.date = body.date
    /\ x.startTime = body.startTime /\ x.endTime = body.endTime
    /\ x.attendees = body.attendees /\ x.notes = body.notes

\* The JSON is a booking with all its fields.
FullBooking(json) ==
    DOMAIN json = {"id", "title", "date", "startTime", "endTime",
                   "attendees", "notes", "createdAt"}

\* C12: an update answered 200 replaces, in the table, the booking of that
\* id by one with the same id and createdAt and the body's title, date,
\* startTime, endTime, attendees and notes, leaves every other row as it
\* was, and answers with a booking that carries the original id and
\* createdAt.
UpdateFrame ==
    [][\A r \in Pending, r2 \in BagToSet(inflight') :
          (r.kind = "update" /\ Moved(r, r2) /\ r2.status = Ok) =>
              \E b \in store, b2 \in store' :
                  /\ b.id = r.id /\ b2.id = b.id /\ b2.createdAt = b.createdAt
                  /\ SameFields(b2, r.body)
                  /\ store' = (store \ {b}) \cup {b2}
                  /\ FullBooking(r2.resp)
                  /\ r2.resp.id = b.id /\ r2.resp.createdAt = b.createdAt]_vars

\* C13: a create answered 201 has added one row, with an id and a createdAt
\* given by the table and the candidate's fields, and its response is a
\* booking with all fields that equals that row.
CreateReturnsRow ==
    [][\A r \in Pending, r2 \in BagToSet(inflight') :
          (r.kind = "create" /\ Moved(r, r2) /\ r2.status = Created) =>
              \E b \in store' :
                  /\ b \notin store /\ store' = store \cup {b}
                  /\ SameFields(b, r.body)
                  /\ FullBooking(r2.resp) /\ r2.resp = b]_vars

\* C14: no two stored bookings share an id; the table's id counter never
\* goes back and every row a step adds has an id at or above the counter
\* before the step and below it after, so the id differs from every id given
\* before, whether that booking is still stored or was deleted; a step that
\* answers an update leaves the ids of the stored bookings as they were.
IdsUniqueAndStable ==
    /\ [](\A b1, b2 \in store : b1.id = b2.id => b1 = b2)
    /\ [](\A b \in store : b.id < nextId)
    /\ [][/\ nextId' >= nextId
          /\ \A b \in store' : b.id \notin {x.id : x \in store} =>
                 nextId <= b.id /\ b.id < nextId'
          /\ \A r \in Pending, r2 \in BagToSet(inflight') :
                 (r.kind = "update" /\ Moved(r, r2)) =>
                     /\ {x.id : x \in store'} = {x.id : x \in store}
                     /\ Cardinality(store') = Cardinality(store)]_vars

\* A create was given id 2 after the booking with id 1 was deleted.
NewIdAfterDelete ==
    \E r \in Pending :
        /\ r.kind = "create" /\ r.status = Created /\ r.resp.id = 2
        /\ {x.id : x \in store} = {2}

\* C15: a listing by date answered 200 holds exactly the stored bookings of
\* that date, each once, in ascending order of startTime, and bookings with
\* equal startTime in ascending order of id.
ListSortedByStartThenId ==
    [][\A r \in Pending, r2 \in BagToSet(inflight') :
          (r.kind = "list" /\ Moved(r, r2) /\ r2.status = Ok) =>
              LET rows == r2.resp.rows
                  ofDate == {b \in store : b.date = r.body.date}
              IN  /\ Len(rows) = Cardinality(ofDate)
                  /\ {rows[i] : i \in DOMAIN rows} = ofDate
                  /\ \A i, j \in DOMAIN rows : i < j =>
                         \/ rows[i].startTime < rows[j].startTime
                         \/ /\ rows[i].startTime = rows[j].startTime
                            /\ rows[i].id < rows[j].id]_vars

\* C16: a step of a listing by date, its arrival or its answer, leaves the
\* table as it was; and a listing of date d answered 200 returns the same
\* sequence as the last listing of d answered 200 when no create, update or
\* delete has been answered since.
ListIdempotent ==
    [][/\ \A r2 \in BagToSet(inflight') :
             (r2.kind = "list" /\ CopiesIn(r2, inflight') > CopiesIn(r2, inflight))
                 => store' = store
       /\ \A r \in Pending, r2 \in BagToSet(inflight') :
             (/\ r.kind = "list" /\ Moved(r, r2) /\ r2.status = Ok
              /\ seen.listed.date = r.body.date)
                 => r2.resp.rows = seen.listed.rows]_vars

\* C17: a step of a create, update or delete that does not answer it 201 or
\* 200 (it arrives, it passes its conflict check, or it is answered 400,
\* 409, 404 or 500) leaves the table as it was, so with requests one at a
\* time the table is then as it was before the request; a step that answers
\* a create 201 keeps every stored booking and adds exactly one.
NoPartialAdmission ==
    [][\A r2 \in BagToSet(inflight') :
          (/\ r2.kind \in {"create", "update", "delete"}
           /\ CopiesIn(r2, inflight') > CopiesIn(r2, inflight)) =>
              /\ r2.status \notin {Created, Ok} => store' = store
              /\ (r2.kind = "create" /\ r2.status = Created) =>
                     /\ store \subseteq store'
                     /\ Cardinality(store') = Cardinality(store) + 1]_vars

\* A delete of an id that is not stored was answered 404 on a table that
\* holds a booking.
DeleteMissedOnFullTable ==
    \E r \in Pending :
        /\ r.kind = "delete" /\ r.status = NotFound
        /\ store # {} /\ r.id \notin {b.id : b \in store}

\* The step answers r with 500 and writes nothing.
Fails(r) ==
    /\ \E r2 \in BagToSet(inflight') :
           Moved(r, r2) /\ r2.pc = "done" /\ r2.status = ServerError
    /\ store' = store /\ nextId' = nextId

\* C18: when the conflict query of a create or update fails, that step
\* answers the request 500 and the table is not written; when an INSERT,
\* UPDATE, DELETE or SELECT fails, that step answers the request 500 and the
\* table is not written; and an answered request takes no further step but
\* its delivery, so no failed call is issued again and no write follows a
\* failed conflict query.
StoreFailureAnswered ==
    [][\A r \in Pending :
          /\ (CreateQueryDone(r, TRUE) \/ UpdateQueryDone(r, TRUE)) => Fails(r)
          /\ (\/ InsertDone(r, TRUE) \/ UpdateDone(r, TRUE) \/ DeleteDone(r, TRUE)
              \/ ListDone(r, TRUE) \/ ListAllDone(r, TRUE)) => Fails(r)
          /\ r.pc = "done" =>
                 /\ inflight' \in {inflight, Remove(inflight, r)}
                 /\ store' = store]_vars

\* A create was answered 500 although a stored booking overlaps it: its
\* conflict query failed, the 409 was never decided.
QueryFailedOnTakenSlot ==
    \E r \in Pending, b \in store :
        /\ r.kind = "create" /\ r.status = ServerError
        /\ b.date = r.body.date /\ WellFormed(b) /\ WellFormed(r.body)
        /\ Overlap(b, r.body)

Kinds == {"create", "update", "delete", "list", "listAll"}

Statuses == {Ok, Created, BadRequest, NotFound, Conflict, ServerError}

\* C19: when every database call completes, a create, update, delete or
\* list request that is waiting is eventually answered with one of the
\* statuses 200, 201, 400, 404, 409, 500; a request has a status exactly
\* when it has been answered; and an answered request takes no further step
\* but the delivery of its answer, so it is not answered again.
AnsweredExactlyOnce ==
    /\ \A k \in Kinds :
           (\E r \in Pending : r.kind = k /\ r.pc # "done")
               ~> (\E r \in Pending :
                       r.kind = k /\ r.pc = "done" /\ r.status \in Statuses)
    /\ [](\A r \in Pending : r.pc # "done" <=> r.status \notin Statuses)
    /\ [][\A r \in Pending : r.pc = "done" =>
              inflight' \in {inflight, Remove(inflight, r)}]_vars

\* A delete of an id that is not stored has been answered.
UnknownDeleteAnswered ==
    \E r \in Pending :
        /\ r.kind = "delete" /\ r.pc = "done"
        /\ r.id \notin {b.id : b \in store} /\ r.status = NotFound

\* C20: on a table whose rows all have startTime < endTime and for a
\* candidate with startTime < endTime, the SQLite conflict query and the
\* PostgreSQL conflict query select the same rows, those of the candidate's
\* date that overlap it under the half-open test (for an update, the row of
\* its own id left out); a request answered 409 had such a row and one let
\* through to its write had none.
PredicatesAgree ==
    \A r \in Pending :
        (/\ r.kind \in {"create", "update"} /\ WellFormed(r.body)
         /\ \A b \in store : WellFormed(b)) =>
            LET hits == {b \in store : /\ b.date = r.body.date
                                       /\ b.startTime < r.body.endTime
                                       /\ r.body.startTime < b.endTime}
                mine == IF r.kind = "create" THEN hits
                        ELSE {b \in hits : b.id # r.id}
            IN  /\ CreateConflicts("sqlite", store, r.body) = hits
                /\ CreateConflicts("pg", store, r.body) = hits
                /\ UpdateConflicts(store, r.id, r.body) = {b \in hits : b.id # r.id}
                /\ r.status = Conflict => mine # {}
                /\ r.pc = "write" => mine = {}

\* A create was answered 409 on a table of two rows, one of its date lying
\* strictly inside the candidate and one with the candidate's times on
\* another date.
NestedRowSelected ==
    \E r \in Pending, b1, b2 \in store :
        /\ r.kind = "create" /\ r.status = Conflict
        /\ b1.date = r.body.date /\ b2.date # r.body.date
        /\ r.body.startTime < b1.startTime /\ b1.endTime < r.body.endTime
        /\ b2.startTime = r.body.startTime /\ b2.endTime = r.body.endTime
====
